---- MODULE Spec2Model ----
(***************************************************************************)
(* A model of sego: the lexer, the term-frequency index (Model.indexFolder), *)
(* the scorer (calculateTF, calculateIDF) and Model.search.                *)
(*                                                                         *)
(* A text ([]rune) is a sequence of runes; a rune is a one-character       *)
(* string.  The alphabet holds one rune of every class the lexer tells     *)
(* apart:                                                                  *)
(*   " "  unicode.IsSpace                                                  *)
(*   "<"  opens a tag            ">"  closes a tag                         *)
(*   "1"  a decimal digit  (unicode.IsNumber, category Nd)                 *)
(*   "h"  the rune U+00BD, one half: unicode.IsNumber holds of it          *)
(*        (category No) and it is neither a decimal digit nor a letter     *)
(*   "a"  a lower-case letter    "A"  its upper-case form                  *)
(*   "."  any other symbol                                                 *)
(***************************************************************************)
EXTENDS Integers, Sequences, FiniteSets, TLC

VARIABLES
    \* ---- one text's token loop (the lexer under tokenize or indexFolder)
    loop,       \* which loop drives the lexer: "tokenize" | "indexFolder"
    input,      \* the runes handed to NewLexer
    content,    \* lexer.content
    token,      \* the value Next returned last: [nil, runes]
    hasNext,    \* the hasNext Next returned last
    tokens,     \* tokenize's result slice
    tf,         \* indexFolder's TermFreq map under construction
    calls,      \* how many calls of Next have returned hasNext = true
    lpc,        \* "loop" | "done" | "panic"
    \* ---- the Model, indexFolder and search
    TF,         \* Model.TF : path -> (token -> count)
    DF,         \* Model.DF : token -> count
    paths,      \* the file paths indexFolder still has to visit
    ipc,        \* "idle" | "indexing"
    ret,        \* what the last indexFolder call returned: "none" | "nil" | "error"
    proc,       \* the process: "running" | "panic" | "exited"
    ioFailed,   \* a file read of the current build has failed
    indexed,    \* how many documents have been indexed so far
    reindexed,  \* some path has been indexed while already in Model.TF
    searched,   \* search has returned since the last indexFolder call
    query,      \* the query of the last search
    result      \* the SearchResults of the last search

lexvars == <<loop, input, content, token, hasNext, tokens, tf, calls, lpc>>
idxvars == <<TF, DF, paths, ipc, ret, proc, ioFailed, indexed, reindexed,
          searched, query, result>>
vars == <<loop, input, content, token, hasNext, tokens, tf, calls, lpc,
          TF, DF, paths, ipc, ret, proc, ioFailed, indexed, reindexed,
          searched, query, result>>

\* ------------------------------------------------------------------ bounds
MaxLen == 4
MaxIndexed == 3

\* ------------------------------------------------------------------ runes
Alphabet == {" ", "<", ">", "1", "h", "a", "A", "."}

IsSpace(r) == r = " "
IsNumber(r) == r \in {"1", "h"}
IsLetter(r) == r \in {"a", "A"}
ToUpper(r) == IF r = "a" THEN "A" ELSE r

RECURSIVE TextsUpTo(_)
TextsUpTo(n) ==
    IF n = 0 THEN {<<>>}
    ELSE LET shorter == TextsUpTo(n - 1)
         IN shorter \cup {Append(s, r) : s \in {t \in shorter : Len(t) = n - 1}, r \in Alphabet}

Range(s) == {s[i] : i \in DOMAIN s}

\* ------------------------------------------------------------------ lexer
Nil == [nil |-> TRUE, runes |-> <<>>]
Runes(s) == [nil |-> FALSE, runes |-> s]

RECURSIVE trimLeft(_)
trimLeft(c) ==
    IF Len(c) > 0 /\ IsSpace(c[1]) THEN trimLeft(Tail(c)) ELSE c

\* chop with the second assignment lost: the token is returned, nothing is consumed
chopKeepsContent(c, n) ==
    [value |-> SubSeq(c, 1, n), content |-> c]

\* token := l.content[0:n]; l.content = l.content[n:]
chop(c, n) ==
    [value |-> SubSeq(c, 1, n), content |-> SubSeq(c, n + 1, Len(c))]

\* the loop of chopWhile: the n it stops at, started at n (0-based, as in the code)
RECURSIVE whileLen(_, _, _)
whileLen(c, n, accepted) ==
    IF n < Len(c) /\ c[n + 1] \in accepted THEN whileLen(c, n + 1, accepted) ELSE n

chopWhile(c, accepted) == chop(c, whileLen(c, 0, accepted))

NumberRunes == {r \in Alphabet : IsNumber(r)}
WordRunes == {r \in Alphabet : IsLetter(r) \/ IsNumber(r)}

\* l.content[n+1:] : a slice expression whose low bound exceeds len raises a
\* run-time panic (slice bounds out of range)
SliceFromPanics(c, low) == low > Len(c)
SliceFrom(c, low) == SubSeq(c, low + 1, Len(c))

\* lexer.Next on a lexer whose content is c: what it returns, the content it
\* leaves, and whether it panicked instead of returning
lexerNext(c) ==
    LET t == trimLeft(c) IN
    IF Len(t) = 0
    THEN [value |-> Nil, hasNext |-> FALSE, content |-> t, panic |-> FALSE]
    ELSE IF t[1] = "<"
    THEN LET n == whileLen(t, 0, Alphabet \ {">"}) IN
         IF SliceFromPanics(t, n + 1)
         THEN [value |-> Nil, hasNext |-> FALSE, content |-> t, panic |-> TRUE]
         ELSE [value |-> Nil, hasNext |-> TRUE, content |-> SliceFrom(t, n + 1),
               panic |-> FALSE]
    ELSE IF IsNumber(t[1])
    THEN LET r == chopWhile(t, NumberRunes) IN
         [value |-> Runes(r.value), hasNext |-> TRUE, content |-> r.content, panic |-> FALSE]
    ELSE IF IsLetter(t[1])
    THEN LET r == chopWhile(t, WordRunes) IN
         [value |-> Runes(r.value), hasNext |-> TRUE, content |-> r.content, panic |-> FALSE]
    ELSE LET r == chop(t, 1) IN
         [value |-> Runes(r.value), hasNext |-> TRUE, content |-> r.content, panic |-> FALSE]

\* for i := range token { token[i] = unicode.ToUpper(token[i]) }
upper(s) == [i \in 1..Len(s) |-> ToUpper(s[i])]

\* tf[string(token)]++ on a map: an absent key reads as 0
Incr(m, k) ==
    IF k \in DOMAIN m THEN [m EXCEPT ![k] = @ + 1]
    ELSE [x \in DOMAIN m \cup {k} |-> IF x = k THEN 1 ELSE m[x]]

EmptyMap == [x \in {} |-> 0]

\* indexToken without the upper-casing loop
indexTokenAsWritten(m, runes) == Incr(m, runes)

\* ---- the body of the token loops, after the nil test
\* indexFolder: upper-case the token in place, then tf[string(token)]++
indexToken(m, runes) == Incr(m, upper(runes))
\* tokenize: upper-case the token in place, then append it to result
tokenizeToken(res, runes) == Append(res, upper(runes))

\* tokenize(term): the loop over lexer.Next, run to its end.  A panic inside
\* Next unwinds tokenize: nothing is returned.
RECURSIVE tokenizeLoop(_, _)
tokenizeLoop(c, res) ==
    LET r == lexerNext(c) IN
    IF r.panic THEN [panic |-> TRUE, tokens |-> <<>>]
    ELSE IF ~r.hasNext THEN [panic |-> FALSE, tokens |-> res]
    ELSE IF r.value.nil THEN tokenizeLoop(r.content, res)
    ELSE tokenizeLoop(r.content, tokenizeToken(res, r.value.runes))

tokenize(term) == tokenizeLoop(term, <<>>)

\* the token loop of indexFolder over one file's content, run to its end
RECURSIVE indexLoop(_, _)
indexLoop(c, m) ==
    LET r == lexerNext(c) IN
    IF r.panic THEN [panic |-> TRUE, tf |-> EmptyMap]
    ELSE IF ~r.hasNext THEN [panic |-> FALSE, tf |-> m]
    ELSE IF r.value.nil THEN indexLoop(r.content, m)
    ELSE indexLoop(r.content, indexToken(m, r.value.runes))

termFreqOf(text) == indexLoop(text, EmptyMap)

\* ------------------------------------------------------------------ scorer
\* A float32 score is a quotient num/den of integers (den > 0), in units of
\* 1/1000 of a natural logarithm, or NaN.  Rounding is left out: only the
\* order of scores, their being zero and their being NaN are modelled.
NaN == [nan |-> TRUE, num |-> 0, den |-> 1]
Float(n, d) == [nan |-> FALSE, num |-> n, den |-> d]

\* the float operations the code uses; every comparison with a NaN is false
FAdd(x, y) ==
    IF x.nan \/ y.nan THEN NaN ELSE Float(x.num * y.den + y.num * x.den, x.den * y.den)
FMul(x, y) ==
    IF x.nan \/ y.nan THEN NaN ELSE Float(x.num * y.num, x.den * y.den)
FLess(x, y) == ~x.nan /\ ~y.nan /\ x.num * y.den < y.num * x.den
FGeq(x, y) == ~x.nan /\ ~y.nan /\ x.num * y.den >= y.num * x.den
\* float32(a) / float32(b) of two ints, a >= 0: 0/0 is NaN
FDiv(a, b) == IF b = 0 /\ a = 0 THEN NaN ELSE Float(a, b)

\* 1000 * ln(k), rounded, for k = 1..12
LnMilli == <<0, 693, 1099, 1386, 1609, 1792, 1946, 2079, 2197, 2303, 2398, 2485>>

RECURSIVE sumOfTerms(_)
sumOfTerms(m) ==
    IF DOMAIN m = {} THEN 0
    ELSE LET k == CHOOSE x \in DOMAIN m : TRUE
         IN m[k] + sumOfTerms([x \in DOMAIN m \ {k} |-> m[x]])

\* a map read: an absent key reads as 0
Get(m, k) == IF k \in DOMAIN m THEN m[k] ELSE 0

calculateTF(term, tfTable) == FDiv(Get(tfTable, term), sumOfTerms(tfTable))

Max(x, y) == IF x >= y THEN x ELSE y

\* ln(n / max(df, 1)), for n >= 1
calculateIDF(df, n) == Float(LnMilli[n] - LnMilli[Max(df, 1)], 1)

\* ------------------------------------------------------------------ Model
\* the files of the corpus, in the order os.ReadDir lists them (by name)
AllPaths == <<"docs/a", "docs/b", "docs/c">>

\* what a file may hold when it is read
DocTexts ==
    { <<>>,
      <<"a">>,
      <<"A", " ", "a", " ", ".">>,
      <<".", "<", "a", ">">>,
      <<"<", "a">> }

\* the queries handed to search
Queries ==
    { <<>>,
      <<"a">>,
      <<"a", " ", ".">>,
      <<"1">>,
      <<"<">> }

\* newModel()
IdxInit ==
    /\ TF = EmptyMap
    /\ DF = EmptyMap
    /\ paths = <<>>
    /\ ipc = "idle"
    /\ ret = "none"
    /\ proc = "running"
    /\ ioFailed = FALSE
    /\ indexed = 0
    /\ reindexed = FALSE
    /\ searched = FALSE
    /\ query = <<>>
    /\ result = <<>>

\* addDF adding the term's count in the document instead of 1
RECURSIVE addDFCounts(_, _)
addDFCounts(df, m) ==
    IF DOMAIN m = {} THEN df
    ELSE LET t == CHOOSE x \in DOMAIN m : TRUE
         IN addDFCounts([x \in DOMAIN df \cup {t} |-> Get(df, x) + (IF x = t THEN m[t] ELSE 0)],
                        [x \in DOMAIN m \ {t} |-> m[x]])

\* for t := range tf { m.DF[t] += 1 }
RECURSIVE addDF(_, _)
addDF(df, m) ==
    IF DOMAIN m = {} THEN df
    ELSE LET t == CHOOSE x \in DOMAIN m : TRUE
         IN addDF(Incr(df, t), [x \in DOMAIN m \ {t} |-> m[x]])

\* m.TF[filePath] = tf
Put(m, k, v) == [x \in DOMAIN m \cup {k} |-> IF x = k THEN v ELSE m[x]]

\* the sorted sub-list of AllPaths readDir returns for a folder holding S
RECURSIVE Listing(_, _)
Listing(all, S) ==
    IF all = <<>> THEN <<>>
    ELSE IF Head(all) \in S THEN <<Head(all)>> \o Listing(Tail(all), S)
    ELSE Listing(Tail(all), S)

\* indexFolder is called and readDir succeeds
IndexFolderStart ==
    /\ proc = "running" /\ ipc = "idle"
    /\ \E S \in SUBSET Range(AllPaths) :
          /\ indexed + Cardinality(S) <= MaxIndexed
          /\ paths' = Listing(AllPaths, S)
    /\ ipc' = "indexing"
    /\ ret' = "none"
    /\ ioFailed' = FALSE
    /\ searched' = FALSE
    /\ query' = <<>>
    /\ result' = <<>>
    /\ UNCHANGED <<TF, DF, proc, indexed, reindexed>>
    /\ UNCHANGED lexvars

\* indexFolder is called and readDir fails: if err != nil { return err }
IndexFolderReadDirFails ==
    /\ proc = "running" /\ ipc = "idle"
    /\ ret' = "error"
    /\ searched' = FALSE
    /\ query' = <<>>
    /\ result' = <<>>
    /\ UNCHANGED <<TF, DF, paths, ipc, proc, ioFailed, indexed, reindexed>>
    /\ UNCHANGED lexvars

\* one iteration of the loop over paths: the file is read and indexed
IndexDocument ==
    /\ proc = "running" /\ ipc = "indexing" /\ paths # <<>>
    /\ \E text \in DocTexts :
          LET r == termFreqOf(text) IN
          /\ ~r.panic
          /\ DF' = addDF(DF, r.tf)
          /\ TF' = Put(TF, Head(paths), r.tf)
    /\ reindexed' = (reindexed \/ Head(paths) \in DOMAIN TF)
    /\ indexed' = indexed + 1
    /\ paths' = Tail(paths)
    /\ UNCHANGED <<ipc, ret, proc, ioFailed, searched, query, result>>
    /\ UNCHANGED lexvars

\* the file is read and lexer.Next panics on its content
IndexDocumentPanics ==
    /\ proc = "running" /\ ipc = "indexing" /\ paths # <<>>
    /\ \E text \in DocTexts : termFreqOf(text).panic
    /\ proc' = "panic"
    /\ UNCHANGED <<TF, DF, paths, ipc, ret, ioFailed, indexed, reindexed, searched,
                   query, result>>
    /\ UNCHANGED lexvars

\* os.ReadFile fails inside readFile: log.Fatal(err) prints and calls
\* os.Exit(1); the return of readFile and the err test in indexFolder are
\* never reached
ReadFileFails ==
    /\ proc = "running" /\ ipc = "indexing" /\ paths # <<>>
    /\ ioFailed' = TRUE
    /\ proc' = "exited"
    /\ UNCHANGED <<TF, DF, paths, ipc, ret, indexed, reindexed, searched, query, result>>
    /\ UNCHANGED lexvars

\* the loop over paths is over: return nil
IndexFolderReturn ==
    /\ proc = "running" /\ ipc = "indexing" /\ paths = <<>>
    /\ ret' = "nil"
    /\ ipc' = "idle"
    /\ UNCHANGED <<TF, DF, paths, proc, ioFailed, indexed, reindexed, searched, query,
                   result>>
    /\ UNCHANGED lexvars

\* ------------------------------------------------------------------ search
\* the inner loop of search: rank += calculateTF(...) * calculateIDF(...)
RECURSIVE rankOf(_, _, _, _, _)
rankOf(toks, tfTable, df, n, rank) ==
    IF toks = <<>> THEN rank
    ELSE rankOf(Tail(toks), tfTable, df, n,
                FAdd(rank, FMul(calculateTF(Head(toks), tfTable),
                                calculateIDF(Get(df, Head(toks)), n))))

\* appendResult keeping only the documents that score above zero
appendResultIfPositive(res, path, rank) ==
    IF FLess(Float(0, 1), rank) THEN Append(res, [Path |-> path, Rank |-> rank]) ELSE res

\* result = append(result, SearchResult{Path: path, Rank: rank})
appendResult(res, path, rank) == Append(res, [Path |-> path, Rank |-> rank])

\* the loop over m.TF, in the order the map iteration yields the paths
RECURSIVE scoreAll(_, _, _, _, _)
scoreAll(order, toks, tft, df, res) ==
    IF order = <<>> THEN res
    ELSE scoreAll(Tail(order), toks, tft, df,
                  appendResult(res, Head(order),
                               rankOf(toks, tft[Head(order)], df,
                                      Cardinality(DOMAIN tft), Float(0, 1))))

\* SearchResults.Less, and Less of sort.Reverse(result)
Less(a, i, j) == FLess(a[i].Rank, a[j].Rank)
ReverseLess(a, i, j) == Less(a, j, i)
Swap(a, i, j) == [a EXCEPT ![i] = a[j], ![j] = a[i]]

\* sort.Sort on at most 12 elements is an insertion sort:
\* for i := 1; i < n; i++ { for j := i; j > 0 && Less(j, j-1); j-- { Swap(j, j-1) } }
\* (indices below are 1-based)
RECURSIVE sinkDown(_, _)
sinkDown(a, j) ==
    IF j > 1 /\ ReverseLess(a, j, j - 1) THEN sinkDown(Swap(a, j, j - 1), j - 1) ELSE a

RECURSIVE insertionSort(_, _)
insertionSort(a, i) ==
    IF i <= Len(a) THEN insertionSort(sinkDown(a, i), i + 1) ELSE a

sortReverse(a) == insertionSort(a, 2)

\* the orders in which a range over a map with key set S may yield the keys
Orders(S) ==
    {o \in [1..Cardinality(S) -> S] : \A i, j \in 1..Cardinality(S) : i # j => o[i] # o[j]}

\* Model.search(query)
Search ==
    /\ proc = "running" /\ ipc = "idle"
    /\ \E q \in Queries :
          LET t == tokenize(q) IN
          /\ ~t.panic
          /\ query' = q
          /\ \E order \in Orders(DOMAIN TF) :
                result' = sortReverse(scoreAll(order, t.tokens, TF, DF, <<>>))
    /\ searched' = TRUE
    /\ UNCHANGED <<TF, DF, paths, ipc, ret, proc, ioFailed, indexed, reindexed>>
    /\ UNCHANGED lexvars

\* Model.search(query) on a query lexer.Next panics on
SearchPanics ==
    /\ proc = "running" /\ ipc = "idle"
    /\ \E q \in Queries :
          /\ tokenize(q).panic
          /\ query' = q
    /\ proc' = "panic"
    /\ UNCHANGED <<TF, DF, paths, ipc, ret, ioFailed, indexed, reindexed, searched, result>>
    /\ UNCHANGED lexvars

\* ------------------------------------------------- one text's token loop
\* Either the loop of tokenize (over a query) or the inner loop of indexFolder
\* (over a file's content), one call of lexer.Next per step.
\* lexer := NewLexer([]rune(string(term))); result := make([]string, 0)
\* tf := make(TermFreq); lexer := NewLexer([]rune(string(content)))
LexInit ==
    /\ loop \in {"tokenize", "indexFolder"}
    /\ input \in TextsUpTo(MaxLen)
    /\ content = input
    /\ token = Nil
    /\ hasNext = FALSE
    /\ tokens = <<>>
    /\ tf = EmptyMap
    /\ calls = 0
    /\ lpc = "loop"

\* token, hasNext := lexer.Next(), when Next returns r
Returned(r) ==
    /\ ~r.panic
    /\ content' = r.content
    /\ token' = r.value
    /\ hasNext' = r.hasNext
    /\ calls' = IF r.hasNext THEN calls + 1 ELSE calls

\* lexer.Next() panics in its tag branch, after trimLeft, and returns nothing
Panicked(r) ==
    /\ r.panic
    /\ content' = r.content
    /\ lpc' = "panic"
    /\ UNCHANGED <<token, hasNext, calls>>

\* tokenize: if !hasNext { break }
TokenizeBreak ==
    /\ loop = "tokenize" /\ lpc = "loop"
    /\ LET r == lexerNext(content) IN Returned(r) /\ ~r.hasNext
    /\ lpc' = "done"
    /\ UNCHANGED <<loop, input, tokens, tf>>
    /\ UNCHANGED idxvars

\* tokenize: if token == nil { continue }
TokenizeSkipTag ==
    /\ loop = "tokenize" /\ lpc = "loop"
    /\ LET r == lexerNext(content) IN Returned(r) /\ r.hasNext /\ r.value.nil
    /\ UNCHANGED <<loop, input, tokens, tf, lpc>>
    /\ UNCHANGED idxvars

\* tokenize: upper-case the token and append it to result
TokenizeAppend ==
    /\ loop = "tokenize" /\ lpc = "loop"
    /\ LET r == lexerNext(content) IN
       /\ Returned(r) /\ r.hasNext /\ ~r.value.nil
       /\ tokens' = tokenizeToken(tokens, r.value.runes)
    /\ UNCHANGED <<loop, input, tf, lpc>>
    /\ UNCHANGED idxvars

\* tokenize: the call of Next panics
TokenizePanic ==
    /\ loop = "tokenize" /\ lpc = "loop"
    /\ Panicked(lexerNext(content))
    /\ UNCHANGED <<loop, input, tokens, tf>>
    /\ UNCHANGED idxvars

\* indexFolder: if !hasNext { break }
IndexBreak ==
    /\ loop = "indexFolder" /\ lpc = "loop"
    /\ LET r == lexerNext(content) IN Returned(r) /\ ~r.hasNext
    /\ lpc' = "done"
    /\ UNCHANGED <<loop, input, tokens, tf>>
    /\ UNCHANGED idxvars

\* indexFolder: if token == nil { continue }
IndexSkipTag ==
    /\ loop = "indexFolder" /\ lpc = "loop"
    /\ LET r == lexerNext(content) IN Returned(r) /\ r.hasNext /\ r.value.nil
    /\ UNCHANGED <<loop, input, tokens, tf, lpc>>
    /\ UNCHANGED idxvars

\* indexFolder: upper-case the token and count it
IndexCount ==
    /\ loop = "indexFolder" /\ lpc = "loop"
    /\ LET r == lexerNext(content) IN
       /\ Returned(r) /\ r.hasNext /\ ~r.value.nil
       /\ tf' = indexToken(tf, r.value.runes)
    /\ UNCHANGED <<loop, input, tokens, lpc>>
    /\ UNCHANGED idxvars

\* indexFolder: the call of Next panics
IndexPanic ==
    /\ loop = "indexFolder" /\ lpc = "loop"
    /\ Panicked(lexerNext(content))
    /\ UNCHANGED <<loop, input, tokens, tf>>
    /\ UNCHANGED idxvars

NextLex ==
    \/ TokenizeBreak \/ TokenizeSkipTag \/ TokenizeAppend \/ TokenizePanic
    \/ IndexBreak \/ IndexSkipTag \/ IndexCount \/ IndexPanic

InitLex == LexInit /\ IdxInit

SpecLex == InitLex /\ [][NextLex]_vars

\* the loop is sequential code: it keeps running until it breaks or panics
SpecLexFair == SpecLex /\ WF_vars(NextLex)

\* ------------------------------------------------- the Model's life
LexIdle ==
    /\ loop = "indexFolder"
    /\ input = <<>>
    /\ content = <<>>
    /\ token = Nil
    /\ hasNext = FALSE
    /\ tokens = <<>>
    /\ tf = EmptyMap
    /\ calls = 0
    /\ lpc = "done"

Init == LexIdle /\ IdxInit

Next ==
    \/ IndexFolderStart \/ IndexFolderReadDirFails
    \/ IndexDocument \/ IndexDocumentPanics \/ ReadFileFails
    \/ IndexFolderReturn
    \/ Search \/ SearchPanics

Spec == Init /\ [][Next]_vars

\* ============================================================ lexer claims
\* the sum of a TermFreq's counts, and the map counting a token sequence
RECURSIVE SumCounts(_)
SumCounts(m) ==
    IF DOMAIN m = {} THEN 0
    ELSE LET k == CHOOSE x \in DOMAIN m : TRUE
         IN m[k] + SumCounts([x \in DOMAIN m \ {k} |-> m[x]])

Occurrences(seq, t) == Cardinality({i \in DOMAIN seq : seq[i] = t})
CountsOf(seq) == [t \in Range(seq) |-> Occurrences(seq, t)]

\* C1: no call of lexer.Next raises a fault, whatever the input (an
\* unterminated tag included: Next is to return (nil, true) there).
C1_NextNeverFaults == lpc # "panic"

\* The tokenizer rules 1-5 of the specification, over the character classes
\* whitespace, '<', '>', decimal digit, letter, other symbol.
RuleDigit(r) == r = "1"
RuleLetter(r) == r \in {"a", "A"}
RuleUpper(r) == IF r = "a" THEN "A" ELSE r

RECURSIVE RuleRun(_, _)
RuleRun(s, class) ==
    IF s # <<>> /\ Head(s) \in class THEN 1 + RuleRun(Tail(s), class) ELSE 0

RECURSIVE RuleAfterTag(_)
RuleAfterTag(s) ==
    IF s = <<>> THEN <<>>
    ELSE IF Head(s) = ">" THEN Tail(s)
    ELSE RuleAfterTag(Tail(s))

RECURSIVE RuleTokens(_)
RuleTokens(s) ==
    IF s = <<>> THEN <<>>
    ELSE IF Head(s) = " " THEN RuleTokens(Tail(s))
    ELSE IF Head(s) = "<" THEN RuleTokens(RuleAfterTag(s))
    ELSE LET n == IF RuleDigit(Head(s)) THEN RuleRun(s, {r \in Alphabet : RuleDigit(r)})
                  ELSE IF RuleLetter(Head(s))
                  THEN RuleRun(s, {r \in Alphabet : RuleLetter(r) \/ RuleDigit(r)})
                  ELSE 1
             tok == [i \in 1..n |-> RuleUpper(s[i])]
         IN <<tok>> \o RuleTokens(SubSeq(s, n + 1, Len(s)))

\* C7: tokenize returns exactly the token sequence rules 1-5 define.
C7_TokenizeFollowsRules ==
    loop = "tokenize" =>
        /\ lpc # "panic"
        /\ lpc = "done" => tokens = RuleTokens(input)

\* C8: the term counts indexFolder builds for a text are the multiset of the
\* tokens tokenize returns for the same text; their sum is the number of tokens.
C8_IndexCountsAreQueryTokens ==
    LET q == tokenize(input) IN
    loop = "indexFolder" =>
    /\ lpc = "done" =>
         /\ ~q.panic
         /\ tf = CountsOf(q.tokens)
         /\ SumCounts(tf) = Len(q.tokens)
    /\ lpc = "panic" => q.panic

C8_Witness ==
    /\ loop = "indexFolder"
    /\ lpc = "done"
    /\ "<" \in Range(input)
    /\ \E t \in DOMAIN tf : tf[t] = 2

Tokens == DOMAIN DF \cup UNION {DOMAIN TF[d] : d \in DOMAIN TF}
DocsWith(t) == {d \in DOMAIN TF : t \in DOMAIN TF[d]}
DFInvariant == \A t \in Tokens : Get(DF, t) = Cardinality(DocsWith(t))

\* C2: from an empty Model, as long as every document indexed had a new
\* identifier, DF[t] is the number of documents whose mapping contains t.
C2_DFCountsDocuments == ~reindexed => DFInvariant

C2_Witness ==
    /\ ~reindexed
    /\ ipc = "idle" /\ ret = "nil"
    /\ \E d \in DOMAIN TF : TF[d] = EmptyMap
    /\ \E t \in DOMAIN DF :
          /\ DF[t] = 2
          /\ \E d \in DOMAIN TF : Get(TF[d], t) = 2

\* C3: indexing an identifier already in the Model still leaves DF[t] equal to
\* the number of documents whose mapping contains t.
C3_DFCountsDocumentsAfterReindex == reindexed => DFInvariant

\* C4: a document with an empty term-count mapping is reported by search with
\* score exactly 0, never NaN.
C4_EmptyDocumentScoresZero ==
    searched =>
        \A i \in DOMAIN result :
            TF[result[i].Path] = EmptyMap =>
                ~result[i].Rank.nan /\ result[i].Rank.num = 0

\* C5: search returns exactly one result for each document of Model.TF and
\* nothing else, whatever the query; zero scores are kept.
C5_OneResultPerDocument ==
    searched =>
        /\ Len(result) = Cardinality(DOMAIN TF)
        /\ {result[i].Path : i \in DOMAIN result} = DOMAIN TF

C5_Witness ==
    /\ searched
    /\ Len(result) = 3
    /\ tokenize(query).tokens # <<>>
    /\ \E i \in DOMAIN result : ~result[i].Rank.nan /\ result[i].Rank.num > 0
    /\ \E i \in DOMAIN result : ~result[i].Rank.nan /\ result[i].Rank.num = 0

\* C6: the sequence search returns is ordered by descending score.
C6_ResultsDescending ==
    searched =>
        \A i, j \in DOMAIN result :
            i < j => FGeq(result[i].Rank, result[j].Rank)

\* C9: a failed file read is returned as an error to the caller of indexFolder.
C9_ReadFailureReturned ==
    ioFailed => (proc = "running" /\ ipc = "idle" /\ ret = "error")

====
